---- MODULE Spec2Model ----
(***************************************************************************)
(* Model of edk2toolext/invocables/edk2_setup.py: Edk2PlatformSetup.       *)
(*                                                                         *)
(* Text that the code parses (the git version line, the diff output) is a  *)
(* sequence of one-character strings, so that split, join, strip and int   *)
(* are computed and not assumed.  Filesystem paths are sequences of path   *)
(* components.  Every RunCmd call is one step; its exit code and captured  *)
(* output are chosen by the environment.  RunCmd with                      *)
(* raise_exception_on_nonzero=True raises on a non-zero exit code; the     *)
(* handlers of Go (except RuntimeError) are written to catch that          *)
(* exception, and the model follows them.                                  *)
(***************************************************************************)
EXTENDS Integers, Sequences, FiniteSets, TLC

VARIABLES
    pc,                  \* position in Invoke: "init", the stages of Go, "done", "raised"
    args,                \* the parsed command line (argparse namespace) and os.path.exists of its omnicache path
    force_it,            \* self.force_it
    omnicache_path,      \* self.omnicache_path
    required_submodules, \* Go: required_submodules
    git_version,         \* Go: git_version
    result,              \* Go: the local result ("unset" before line 159)
    returned,            \* the value Go returned ("none" while Go has not returned)
    idx,                 \* position of the running for loop in required_submodules
    skip_repo,           \* Go: skip_repo of the running loop iteration
    path_exists,         \* os.path.exists(required_submodule_path), as observed by each loop iteration
    iterations,          \* how each finished iteration of the fetch loop ended
    cmds                 \* every RunCmd call issued so far, in order, with its outcome

vars == <<pc, args, force_it, omnicache_path, required_submodules, git_version,
          result, returned, idx, skip_repo, path_exists, iterations, cmds>>

----------------------------------------------------------------------------
(* Bounds and input sets *)

MaxSubmodules == 2

None == "<None>"

\* exit codes a subprocess may end with
RetCodes == {0, 1}

workspace_path == <<"ws">>

\* the RequiredSubmodule values a platform's settings may list
RequiredSubmodule(path, recursive) == [path |-> path, recursive |-> recursive]

SubmoduleChoices ==
    { RequiredSubmodule(<<"Common", "MU">>, TRUE),
      RequiredSubmodule(<<"Silicon", "..", "Tiano">>, FALSE),
      RequiredSubmodule(<<".", "Features">>, TRUE) }

RECURSIVE SeqsUpTo(_, _)
SeqsUpTo(S, n) ==
    IF n = 0 THEN { <<>> }
    ELSE LET shorter == SeqsUpTo(S, n - 1)
         IN  shorter \cup { Append(s, x) : s \in shorter, x \in S }

SubmoduleLists == SeqsUpTo(SubmoduleChoices, MaxSubmodules)

GitVersionPrefix == <<"g", "i", "t", " ", "v", "e", "r", "s", "i", "o", "n", " ">>

\* what `git --version` may print (before strip())
GitVersionOutputs ==
    { GitVersionPrefix \o <<"2", ".", "9", ".", "9", "\n">>,
      GitVersionPrefix \o <<"2", ".", "9", ".", "0", "\n">>,
      GitVersionPrefix \o <<"2", ".", "1", "0", ".", "0", "\n">>,
      GitVersionPrefix \o <<"1", ".", "1", "2", ".", "5", "\n">>,
      GitVersionPrefix \o <<"2", ".", "1", "1", ".", "0", "\n">>,
      GitVersionPrefix \o <<"2", ".", "1", "1", ".", "1", "\n">>,
      GitVersionPrefix \o <<"2", ".", "3", "0", ".", "0", ".", "w", "i", "n", ".", "1", "\n">>,
      GitVersionPrefix \o <<"1", "0", ".", "2", ".", "0", " ", "(", "x", ")", "\n">> }

\* what `git diff <path>` may print: nothing, or a diff
DiffOutputs == { <<>>, <<"d", "i", "f", "f", "\n">> }

\* the --omnicache argument (or OMNICACHE_PATH): absent, or a path
OmnicacheArgs == { None, "/omnicache" }

----------------------------------------------------------------------------
(* Text helpers: str.strip, str.split, str.join, int *)

Whitespace == { " ", "\n", "\t" }

RECURSIVE LStrip(_)
LStrip(s) == IF s # <<>> /\ Head(s) \in Whitespace THEN LStrip(Tail(s)) ELSE s

RECURSIVE RStrip(_)
RStrip(s) ==
    IF s # <<>> /\ s[Len(s)] \in Whitespace THEN RStrip(SubSeq(s, 1, Len(s) - 1)) ELSE s

Strip(s) == RStrip(LStrip(s))

\* s.split(sep) for a one-character sep: always at least one (possibly empty) part
RECURSIVE SplitFrom(_, _, _)
SplitFrom(s, sep, cur) ==
    IF s = <<>> THEN << cur >>
    ELSE IF Head(s) = sep THEN << cur >> \o SplitFrom(Tail(s), sep, <<>>)
    ELSE SplitFrom(Tail(s), sep, Append(cur, Head(s)))

Split(s, sep) == SplitFrom(s, sep, <<>>)

\* sep.join(parts)
RECURSIVE Join(_, _)
Join(parts, sep) ==
    IF parts = <<>> THEN <<>>
    ELSE IF Len(parts) = 1 THEN parts[1]
    ELSE parts[1] \o << sep >> \o Join(Tail(parts), sep)

\* parts[:n]
FirstN(parts, n) == SubSeq(parts, 1, IF Len(parts) < n THEN Len(parts) ELSE n)

Digits == <<"0", "1", "2", "3", "4", "5", "6", "7", "8", "9">>

DigitVal(c) == (CHOOSE i \in 1..Len(Digits) : Digits[i] = c) - 1

\* int(x) for a string of decimal digits
RECURSIVE ParseInt(_)
ParseInt(s) ==
    IF s = <<>> THEN 0
    ELSE ParseInt(SubSeq(s, 1, Len(s) - 1)) * Len(Digits) + DigitVal(s[Len(s)])

----------------------------------------------------------------------------
(* version_compare of edk2toollib.utility_functions *)

AllZeros(s) == s # <<>> /\ \A i \in 1..Len(s) : s[i] = "0"

\* drop the trailing ".0" groups, then the components as numbers
RECURSIVE DropZeroGroups(_)
DropZeroGroups(parts) ==
    IF Len(parts) > 1 /\ AllZeros(parts[Len(parts)])
    THEN DropZeroGroups(SubSeq(parts, 1, Len(parts) - 1))
    ELSE parts

normalize(v) ==
    LET parts == DropZeroGroups(Split(v, "."))
    IN  [i \in 1..Len(parts) |-> ParseInt(parts[i])]

\* a < b for lists of numbers, as Python orders lists
RECURSIVE ListLess(_, _)
ListLess(a, b) ==
    IF b = <<>> THEN FALSE
    ELSE IF a = <<>> THEN TRUE
    ELSE IF Head(a) # Head(b) THEN Head(a) < Head(b)
    ELSE ListLess(Tail(a), Tail(b))

version_compare(version1, version2) ==
    LET a == normalize(version1)
        b == normalize(version2)
    IN  (IF ListLess(b, a) THEN 1 ELSE 0) - (IF ListLess(a, b) THEN 1 ELSE 0)

----------------------------------------------------------------------------
(* Path helpers: os.path.join, os.path.normpath on relative components *)

PathJoin(a, b) == a \o b

RECURSIVE NormFrom(_, _)
NormFrom(todo, acc) ==
    IF todo = <<>> THEN acc
    ELSE IF Head(todo) = "." THEN NormFrom(Tail(todo), acc)
    ELSE IF Head(todo) = ".." /\ acc # <<>> /\ acc[Len(acc)] # ".."
         THEN NormFrom(Tail(todo), SubSeq(acc, 1, Len(acc) - 1))
    ELSE NormFrom(Tail(todo), Append(acc, Head(todo)))

NormPath(p) == NormFrom(p, <<>>)

\* os.path.normpath(os.path.join(workspace_path, required_submodule.path))
ResolvedPath(sub) == NormPath(PathJoin(workspace_path, sub.path))

----------------------------------------------------------------------------
(* RunCmd calls *)

\* one RunCmd("git", ...) call: the words of its parameter string, the
\* submodule paths that end it, its working directory, the loop iteration that
\* issued it (0 outside the loops), and what the subprocess did
Cmd(words, paths, workingdir, item, outcome) ==
    [words |-> words, paths |-> paths, workingdir |-> workingdir, item |-> item,
     ret |-> outcome.ret, out |-> outcome.out]

\* outcomes of a call whose output is not captured
Outcomes == { [ret |-> r, out |-> <<>>] : r \in RetCodes }

\* outcomes of a call that captures stdout: success with one of `outs`, or failure
CapturedOutcomes(outs) ==
    { [ret |-> 0, out |-> o] : o \in outs }
        \cup { [ret |-> r, out |-> <<>>] : r \in RetCodes \ {0} }

GetLoggingFileName(loggerType) == "SETUPLOG"

ignore_files ==
    << "-e", "Build/" \o GetLoggingFileName("txt") \o ".txt",
       "-e", "Build/" \o GetLoggingFileName("md") \o ".md" >>

----------------------------------------------------------------------------
(* Edk2PlatformSetup *)

Init ==
    /\ pc = "init"
    /\ args = [force |-> FALSE, omnicache_path |-> None, omnicache_exists |-> FALSE]
    /\ force_it = FALSE
    /\ omnicache_path = None
    /\ required_submodules = <<>>
    /\ git_version = <<>>
    /\ result = "unset"
    /\ returned = "none"
    /\ idx = 0
    /\ skip_repo = FALSE
    /\ path_exists = <<>>
    /\ iterations = <<>>
    /\ cmds = <<>>

\* variant of EffectiveOmnicache: the existence test dropped
EffectiveOmnicache_keeps(a) == a.omnicache_path

\* the omnicache path kept by RetrieveCommandLineOptions
EffectiveOmnicache(a) ==
    IF a.omnicache_path # None /\ ~a.omnicache_exists THEN None ELSE a.omnicache_path

RetrieveCommandLineOptions ==
    /\ pc = "init"
    /\ \E f \in BOOLEAN, o \in OmnicacheArgs, e \in BOOLEAN :
         /\ o = None => ~e
         /\ args' = [force |-> f, omnicache_path |-> o, omnicache_exists |-> e]
         /\ force_it' = f
         /\ omnicache_path' = EffectiveOmnicache(args')
    /\ pc' = "go"
    /\ UNCHANGED <<required_submodules, git_version, result, returned, idx, skip_repo,
                   path_exists, iterations, cmds>>

min_git == <<"2", ".", "1", "1", ".", "0">>

cur_git(version) == Join(FirstN(Split(Split(version, " ")[3], "."), 3), ".")

\* variants of GitTooOld: the arguments of version_compare exchanged; >= for >
GitTooOld_swapped(version) == version_compare(cur_git(version), min_git) > 0

GitTooOld_orEqual(version) == version_compare(min_git, cur_git(version)) >= 0

GitTooOld(version) == version_compare(min_git, cur_git(version)) > 0

\* where Go continues once the version check has passed
AfterVersionCheck == IF force_it THEN "clean_root_reset" ELSE "grab"

\* lines 109-126: the settings' submodule list, `git --version`, the minimum version
GoCheckGit ==
    /\ pc = "go"
    /\ \E subs \in SubmoduleLists, o \in CapturedOutcomes(GitVersionOutputs) :
         /\ required_submodules' = subs
         /\ cmds' = Append(cmds, Cmd(<<"--version">>, <<>>, <<>>, 0, o))
         /\ IF o.ret # 0
            THEN /\ pc' = "raised"
                 /\ UNCHANGED git_version
            ELSE /\ git_version' = Strip(o.out)
                 /\ pc' = IF GitTooOld(git_version') THEN "raised" ELSE AfterVersionCheck
    /\ UNCHANGED <<args, force_it, omnicache_path, result, returned, idx, skip_repo,
                   path_exists, iterations>>

\* variants of FatalReturn: a positive exit code; the failure logged only
FatalReturn_positive ==
    /\ returned' = 1
    /\ pc' = "done"

FatalReturn_continues ==
    /\ pc' = "grab"
    /\ UNCHANGED returned

\* lines 152-156 and 171-175: the handlers of the fatal stages
FatalReturn ==
    /\ returned' = -1
    /\ pc' = "done"

\* variant of AfterClean: the last submodule is left out
AfterClean_offByOne(n) ==
    IF n + 1 < Len(required_submodules) THEN "clean_sub_reset" ELSE "grab"

\* where the force-clean stage continues after submodule n (0: the root)
AfterClean(n) ==
    IF n < Len(required_submodules) THEN "clean_sub_reset" ELSE "grab"

\* lines 130-131
CleanRootReset ==
    /\ pc = "clean_root_reset"
    /\ \E o \in Outcomes :
         /\ cmds' = Append(cmds, Cmd(<<"reset", "--hard">>, <<>>, workspace_path, 0, o))
         /\ IF o.ret # 0
            THEN FatalReturn
            ELSE pc' = "clean_root_clean" /\ UNCHANGED returned
    /\ UNCHANGED <<args, force_it, omnicache_path, required_submodules, git_version,
                   result, idx, skip_repo, path_exists, iterations>>

\* lines 133-141
CleanRootClean ==
    /\ pc = "clean_root_clean"
    /\ \E o \in Outcomes :
         /\ cmds' = Append(cmds, Cmd(<<"clean", "-xffd">> \o ignore_files, <<>>,
                                     workspace_path, 0, o))
         /\ IF o.ret # 0
            THEN FatalReturn /\ UNCHANGED idx
            ELSE pc' = AfterClean(0) /\ idx' = 1 /\ UNCHANGED returned
    /\ UNCHANGED <<args, force_it, omnicache_path, required_submodules, git_version,
                   result, skip_repo, path_exists, iterations>>

\* lines 142-146
CleanSubReset ==
    /\ pc = "clean_sub_reset"
    /\ \E o \in Outcomes :
         /\ cmds' = Append(cmds, Cmd(<<"reset", "--hard">>, <<>>,
                                     ResolvedPath(required_submodules[idx]), idx, o))
         /\ IF o.ret # 0
            THEN FatalReturn
            ELSE pc' = "clean_sub_clean" /\ UNCHANGED returned
    /\ UNCHANGED <<args, force_it, omnicache_path, required_submodules, git_version,
                   result, idx, skip_repo, path_exists, iterations>>

\* lines 147-150
CleanSubClean ==
    /\ pc = "clean_sub_clean"
    /\ \E o \in Outcomes :
         /\ cmds' = Append(cmds, Cmd(<<"clean", "-xffd">>, <<>>,
                                     ResolvedPath(required_submodules[idx]), idx, o))
         /\ IF o.ret # 0
            THEN FatalReturn /\ UNCHANGED idx
            ELSE pc' = AfterClean(idx) /\ idx' = idx + 1 /\ UNCHANGED returned
    /\ UNCHANGED <<args, force_it, omnicache_path, required_submodules, git_version,
                   result, skip_repo, path_exists, iterations>>

\* variant of HasSubmodules: the emptiness test dropped
HasSubmodules_always == TRUE

\* line 160
HasSubmodules == required_submodules # <<>> /\ Len(required_submodules) > 0

\* lines 159-160 (and 227 when there is nothing to grab)
GrabRemaining ==
    /\ pc = "grab"
    /\ result' = 0
    /\ IF HasSubmodules
       THEN pc' = "sync" /\ UNCHANGED returned
       ELSE pc' = "done" /\ returned' = result'
    /\ UNCHANGED <<args, force_it, omnicache_path, required_submodules, git_version,
                   idx, skip_repo, path_exists, iterations, cmds>>

\* [x.path for x in required_submodules]
SubmodulePaths == [i \in 1..Len(required_submodules) |-> required_submodules[i].path]

\* lines 164-175
Sync ==
    /\ pc = "sync"
    /\ \E o \in Outcomes :
         /\ cmds' = Append(cmds, Cmd(<<"submodule", "sync", "--">>, SubmodulePaths,
                                     workspace_path, 0, o))
         /\ IF o.ret # 0
            THEN FatalReturn /\ UNCHANGED idx
            ELSE pc' = "loop" /\ idx' = 1 /\ UNCHANGED returned
    /\ UNCHANGED <<args, force_it, omnicache_path, required_submodules, git_version,
                   result, skip_repo, path_exists, iterations>>

\* how one iteration of the fetch loop ended
Iteration(skipped, failed) == [skipped |-> skipped, failed |-> failed]

\* variant of EndIteration: a success overwrites the accumulated result
EndIteration_resets(skipped, failed) ==
    /\ iterations' = Append(iterations, Iteration(skipped, failed))
    /\ result' = IF failed THEN -1 ELSE 0
    /\ idx' = idx + 1
    /\ pc' = "loop"

\* lines 219 and 221-225: an iteration ends, normally or in the handler
EndIteration(skipped, failed) ==
    /\ iterations' = Append(iterations, Iteration(skipped, failed))
    /\ result' = IF failed THEN -1 ELSE result
    /\ idx' = idx + 1
    /\ pc' = "loop"

\* variant of NeedsDiff: force does not suppress the dirty check
NeedsDiff_ignoresForce(exists) == exists

\* line 189
NeedsDiff(exists) == exists /\ ~force_it

\* variant of ShouldFetch: the skip decision is ignored
ShouldFetch_always(skip) == TRUE

\* line 204
ShouldFetch(skip) == ~skip \/ force_it

\* lines 179-189 (and 227 when the list is exhausted)
LoopHead ==
    /\ pc = "loop"
    /\ IF idx > Len(required_submodules)
       THEN /\ returned' = result
            /\ pc' = "done"
            /\ UNCHANGED <<skip_repo, path_exists>>
       ELSE /\ \E e \in BOOLEAN :
                 /\ path_exists' = Append(path_exists, e)
                 /\ pc' = IF NeedsDiff(e) THEN "diff" ELSE "decide"
            /\ skip_repo' = FALSE
            /\ UNCHANGED returned
    /\ UNCHANGED <<args, force_it, omnicache_path, required_submodules, git_version,
                   result, idx, iterations, cmds>>

\* lines 190-200
Diff ==
    /\ pc = "diff"
    /\ \E o \in CapturedOutcomes(DiffOutputs) :
         /\ cmds' = Append(cmds, Cmd(<<"diff">>, << required_submodules[idx].path >>,
                                     workspace_path, idx, o))
         /\ IF o.ret # 0
            THEN EndIteration(FALSE, TRUE) /\ UNCHANGED skip_repo
            ELSE /\ skip_repo' = (Strip(o.out) # <<>>)
                 /\ pc' = "decide"
                 /\ UNCHANGED <<result, idx, iterations>>
    /\ UNCHANGED <<args, force_it, omnicache_path, required_submodules, git_version,
                   returned, path_exists>>

\* lines 204 and 219
Decide ==
    /\ pc = "decide"
    /\ IF ShouldFetch(skip_repo)
       THEN pc' = "fetch" /\ UNCHANGED <<result, idx, iterations>>
       ELSE EndIteration(TRUE, FALSE)
    /\ UNCHANGED <<args, force_it, omnicache_path, required_submodules, git_version,
                   returned, skip_repo, path_exists, cmds>>

\* lines 206-211: cmd_string without the submodule path that ends it
FetchWords(sub) ==
    <<"submodule", "update", "--init">>
        \o (IF sub.recursive THEN <<"--recursive">> ELSE <<>>)
        \o <<"--progress">>
        \o (IF omnicache_path # None THEN <<"--reference", omnicache_path>> ELSE <<>>)

\* lines 205-225
Fetch ==
    /\ pc = "fetch"
    /\ \E o \in Outcomes :
         /\ cmds' = Append(cmds, Cmd(FetchWords(required_submodules[idx]),
                                     << required_submodules[idx].path >>,
                                     workspace_path, idx, o))
         /\ EndIteration(FALSE, o.ret # 0)
    /\ UNCHANGED <<args, force_it, omnicache_path, required_submodules, git_version,
                   returned, skip_repo, path_exists>>

Next ==
    \/ RetrieveCommandLineOptions
    \/ GoCheckGit
    \/ CleanRootReset
    \/ CleanRootClean
    \/ CleanSubReset
    \/ CleanSubClean
    \/ GrabRemaining
    \/ Sync
    \/ LoopHead
    \/ Diff
    \/ Decide
    \/ Fetch

Spec == Init /\ [][Next]_vars

TypeOK ==
    /\ pc \in {"init", "go", "clean_root_reset", "clean_root_clean", "clean_sub_reset",
               "clean_sub_clean", "grab", "sync", "loop", "diff", "decide", "fetch",
               "done", "raised"}
    /\ force_it \in BOOLEAN
    /\ required_submodules \in SubmoduleLists
    /\ Len(iterations) <= Len(required_submodules)

----------------------------------------------------------------------------
(* Vocabulary of the properties *)

IsVersion(c) == c.words = <<"--version">>
IsReset(c)   == c.words[1] = "reset"
IsClean(c)   == c.words[1] = "clean"
IsDiff(c)    == c.words[1] = "diff"
IsSync(c)    == c.words[1] = "submodule" /\ c.words[2] = "sync"
IsFetch(c)   == c.words[1] = "submodule" /\ c.words[2] = "update"

Contains(seq, w) == \E i \in 1..Len(seq) : seq[i] = w

Positions == 1..Len(cmds)

\* the loop iteration i issued a diff / a submodule update
DiffOf(i)  == { k \in Positions : IsDiff(cmds[k]) /\ cmds[k].item = i }
FetchOf(i) == { k \in Positions : IsFetch(cmds[k]) /\ cmds[k].item = i }

NoCommandFailed == \A k \in Positions : cmds[k].ret = 0

\* the installed version as the tuple (major, minor, patch) of the third word
VersionTuple(version) ==
    LET p == Split(Split(version, " ")[3], ".")
    IN  << ParseInt(p[1]), ParseInt(p[2]), ParseInt(p[3]) >>

TupleLess(a, b) ==
    \/ a[1] < b[1]
    \/ a[1] = b[1] /\ a[2] < b[2]
    \/ a[1] = b[1] /\ a[2] = b[2] /\ a[3] < b[3]

MinTuple == << 2, 11, 0 >>

VersionQueried == git_version # <<>>

InstalledOlder == VersionQueried /\ TupleLess(VersionTuple(git_version), MinTuple)

GitVersionLine(number) == GitVersionPrefix \o number

\* Go has entered the fetch loop (the sync command succeeded)
Synced == \E k \in Positions : IsSync(cmds[k]) /\ cmds[k].ret = 0

\* Go has returned from the end of the fetch loop
LoopCompleted == pc = "done" /\ Synced

----------------------------------------------------------------------------
(* C1 *)

\* C1: whenever the installed git version is below 2.11.0, Go has raised and
\* the only command ever issued is the version query: no reset, clean, sync,
\* diff or submodule update, whatever force and the submodule list are.
C1_AbortsBeforeTouchingWorkspace ==
    InstalledOlder =>
        /\ pc = "raised"
        /\ returned = "none"
        /\ \A k \in Positions : IsVersion(cmds[k])

\* git 2.10.0, force set, submodules required: the run has aborted
C1_Witness ==
    /\ git_version = GitVersionLine(<<"2", ".", "1", "0", ".", "0">>)
    /\ force_it
    /\ Len(required_submodules) > 0
    /\ pc = "raised"

(* C2 *)

\* C2: the version check rejects (Go raises) exactly when the (major, minor,
\* patch) tuple of the third word of the version line is lexicographically
\* below (2, 11, 0), components compared as numbers: 2.9.9 and 2.9.0 are
\* rejected, 2.11.0 and 2.11.1 are accepted.
C2_RejectsExactlyOlderTuples ==
    VersionQueried =>
        /\ (pc = "raised") <=> TupleLess(VersionTuple(git_version), MinTuple)
        /\ git_version \in { GitVersionLine(<<"2", ".", "9", ".", "9">>),
                             GitVersionLine(<<"2", ".", "9", ".", "0">>) }
              => pc = "raised"
        /\ git_version \in { GitVersionLine(<<"2", ".", "1", "1", ".", "0">>),
                             GitVersionLine(<<"2", ".", "1", "1", ".", "1">>) }
              => pc # "raised"

\* 2.9.0 has been rejected although "9" sorts after "11" as text
C2_Witness ==
    /\ git_version = GitVersionLine(<<"2", ".", "9", ".", "0">>)
    /\ VersionTuple(git_version) = << 2, 9, 0 >>
    /\ pc = "raised"

(* C3 *)

\* C3 as stated: every run of Go ends with a result code, 0 when nothing
\* failed and -1 otherwise; in particular a failed version check yields -1.
C3_AlwaysEndsWithResultCode ==
    /\ InstalledOlder => (pc = "done" /\ returned = -1)
    /\ pc = "done" => returned = (IF NoCommandFailed THEN 0 ELSE -1)

\* C3 amended: a run of Go that passes the version check ends with the result
\* 0 when no reset, clean, sync, diff or fetch command failed and with -1 when
\* one did; a run whose version query or version check fails returns no result
\* code at all: Go raises, having issued the version query only.
C3_ResultCodeAfterVersionCheck ==
    /\ pc = "done" =>
          /\ VersionQueried /\ ~InstalledOlder
          /\ returned = (IF NoCommandFailed THEN 0 ELSE -1)
    /\ pc = "raised" =>
          /\ returned = "none"
          /\ Len(cmds) = 1 /\ IsVersion(cmds[1])
          /\ cmds[1].ret # 0 \/ InstalledOlder

\* a run that completed the loop with a failed fetch returned -1
C3_Witness ==
    /\ LoopCompleted
    /\ returned = -1
    /\ \E k \in Positions : IsFetch(cmds[k]) /\ cmds[k].ret # 0

(* C4 *)

\* C4 as stated: with an empty submodule list, for every value of force, no
\* sync, diff or update is issued and Go returns 0 once the version check passed.
C4_EmptyListAlwaysReturnsZero ==
    required_submodules = <<>> =>
        /\ \A k \in Positions : ~IsSync(cmds[k]) /\ ~IsDiff(cmds[k]) /\ ~IsFetch(cmds[k])
        /\ pc = "done" => returned = 0

\* C4 amended: with an empty submodule list, for every value of force, no
\* sync, diff or update is ever issued, and Go returns 0 provided the version
\* check passes and, under force, the reset and the clean of the workspace root
\* succeed (it returns -1 when one of them fails).
C4_EmptyListSkipsSyncAndLoop ==
    (required_submodules = <<>> /\ pc # "init") =>
        /\ \A k \in Positions : ~IsSync(cmds[k]) /\ ~IsDiff(cmds[k]) /\ ~IsFetch(cmds[k])
        /\ path_exists = <<>> /\ iterations = <<>>
        /\ pc = "done" => returned = (IF NoCommandFailed THEN 0 ELSE -1)
        /\ (pc = "done" /\ ~force_it) => (returned = 0 /\ Len(cmds) = 1)

\* force set, nothing required: root reset and clean ran, Go returned 0
C4_Witness ==
    /\ pc = "done"
    /\ VersionQueried
    /\ required_submodules = <<>>
    /\ force_it
    /\ Len(cmds) = 3
    /\ returned = 0

(* C5 *)

\* iteration i found its path present and its diff (run successfully) non-empty
DirtyAt(i) ==
    /\ path_exists[i]
    /\ \E k \in DiffOf(i) : cmds[k].ret = 0 /\ cmds[k].out # <<>>

\* iteration i ran a diff that succeeded with empty output
CleanDiffAt(i) == \E k \in DiffOf(i) : cmds[k].ret = 0 /\ cmds[k].out = <<>>

\* C5: with force=false, for every finished iteration of the fetch loop, the
\* submodule update was issued exactly when the path did not exist or the diff
\* succeeded with empty output; an existing path with a non-empty diff gets no
\* update and is no failure; a missing path gets no diff; and the result is -1
\* only when some iteration failed.
C5_FetchExactlyWhenMissingOrClean ==
    ~force_it =>
        /\ \A i \in 1..Len(iterations) :
              /\ (FetchOf(i) # {}) <=> (~path_exists[i] \/ CleanDiffAt(i))
              /\ DirtyAt(i) =>
                    /\ FetchOf(i) = {}
                    /\ iterations[i] = Iteration(TRUE, FALSE)
              /\ ~path_exists[i] => DiffOf(i) = {}
              /\ Cardinality(FetchOf(i)) <= 1
        /\ iterations # <<>> =>
              ((result = -1) <=> \E i \in 1..Len(iterations) : iterations[i].failed)

\* force off: a dirty existing submodule was skipped, a missing one was fetched
\* without a diff, and the run returned 0
C5_Witness ==
    /\ ~force_it
    /\ LoopCompleted
    /\ Len(iterations) = 2
    /\ DirtyAt(1) /\ FetchOf(1) = {}
    /\ ~path_exists[2] /\ FetchOf(2) # {} /\ DiffOf(2) = {}
    /\ returned = 0

(* C6 *)

\* a reset / a clean on the directory wd was issued before position k
ResetBefore(k, wd) == \E r \in 1..(k - 1) : IsReset(cmds[r]) /\ cmds[r].workingdir = wd
CleanBefore(k, wd) == \E c \in 1..(k - 1) : IsClean(cmds[c]) /\ cmds[c].workingdir = wd

\* every reset and every clean of the force-clean stage precedes position k
CleanStageBefore(k) ==
    /\ ResetBefore(k, workspace_path)
    /\ CleanBefore(k, workspace_path)
    /\ \A i \in 1..Len(required_submodules) :
          /\ ResetBefore(k, ResolvedPath(required_submodules[i]))
          /\ CleanBefore(k, ResolvedPath(required_submodules[i]))
    /\ \A j \in k..Len(cmds) : ~IsReset(cmds[j]) /\ ~IsClean(cmds[j])

\* C6 as stated: given force=true, every run of Go that returns has issued a
\* submodule update for every required submodule.
C6_ForceAlwaysFetchesAll ==
    (force_it /\ pc = "done") =>
        \A i \in 1..Len(required_submodules) : FetchOf(i) # {}

\* C6 amended: given force=true, in every run in which the version check passes
\* and no reset, clean or sync command fails, every required submodule gets a
\* submodule update (and no diff), whether or not its path exists and whether
\* or not an earlier update failed; and every reset and clean of the
\* force-clean stage is issued before the first update.
C6_ForceFetchesAllAfterCleanAndSync ==
    force_it =>
        /\ (pc = "done" /\ \A k \in Positions : IsFetch(cmds[k]) \/ cmds[k].ret = 0) =>
              \A i \in 1..Len(required_submodules) :
                  Cardinality(FetchOf(i)) = 1 /\ DiffOf(i) = {}
        /\ \A i \in 1..Len(iterations) : FetchOf(i) # {}
        /\ \A k \in Positions : IsFetch(cmds[k]) => CleanStageBefore(k)

\* force on: of two submodules one exists and one does not, both were fetched
C6_Witness ==
    /\ force_it
    /\ LoopCompleted
    /\ Len(required_submodules) = 2
    /\ path_exists = << TRUE, FALSE >>
    /\ FetchOf(1) # {} /\ FetchOf(2) # {}

(* C7 *)

\* iteration i failed: its diff or its update ended with a non-zero exit code
FailedAt(i) == \E k \in DiffOf(i) \cup FetchOf(i) : cmds[k].ret # 0

\* iteration j was processed: its path was looked up, and it ended skipped as
\* dirty, or with its update issued, or in the handler of a failed diff
ProcessedAt(j) ==
    /\ j <= Len(path_exists) /\ j <= Len(iterations)
    /\ \/ iterations[j].skipped /\ DirtyAt(j)
       \/ FetchOf(j) # {}
       \/ \E k \in DiffOf(j) : cmds[k].ret # 0

\* C7: once the loop has been entered, the accumulated result is -1 exactly
\* when some finished iteration failed (so no later success resets it); and
\* when Go has returned from the loop, every submodule was processed, a failed
\* diff or update at i notwithstanding, and the result is -1 if one failed.
C7_FailuresAreIsolated ==
    Synced =>
        /\ Len(iterations) <= Len(required_submodules)
        /\ \A i \in 1..Len(iterations) : iterations[i].failed <=> FailedAt(i)
        /\ (result = -1) <=> \E i \in 1..Len(iterations) : FailedAt(i)
        /\ pc = "done" =>
              /\ \A j \in 1..Len(required_submodules) : ProcessedAt(j)
              /\ returned = result

\* the first update failed, the second was still issued and succeeded, and
\* the run returned -1
C7_Witness ==
    /\ LoopCompleted
    /\ Len(required_submodules) = 2
    /\ \E k \in FetchOf(1) : cmds[k].ret # 0
    /\ \E k \in FetchOf(2) : cmds[k].ret = 0
    /\ returned = -1

(* C8 *)

IsFatalStage(c) == IsReset(c) \/ IsClean(c) \/ IsSync(c)

\* C8: a reset, clean or sync command that failed is the last command ever
\* issued, and Go has returned -1.
C8_FatalFailureAbortsAtOnce ==
    \A k \in Positions :
        (IsFatalStage(cmds[k]) /\ cmds[k].ret # 0) =>
            /\ k = Len(cmds)
            /\ pc = "done"
            /\ returned = -1
            /\ iterations = <<>>

\* the reset of the first submodule failed under force: nothing followed it
C8_Witness ==
    /\ Len(required_submodules) = 2
    /\ Len(cmds) = 4
    /\ IsReset(cmds[4]) /\ cmds[4].item = 1 /\ cmds[4].ret # 0
    /\ pc = "done" /\ returned = -1

(* C9 *)

\* C9: an update command carries --reference (followed by the omnicache path)
\* exactly when an omnicache path was given and existed when the options were
\* retrieved; a path that did not exist leaves self.omnicache_path unset and
\* the run goes on.
C9_ReferenceOnlyForExistingOmnicache ==
    /\ pc # "init" =>
          omnicache_path =
              (IF args.omnicache_path # None /\ args.omnicache_exists
               THEN args.omnicache_path ELSE None)
    /\ \A k \in Positions :
          IsFetch(cmds[k]) =>
              /\ Contains(cmds[k].words, "--reference")
                    <=> (args.omnicache_path # None /\ args.omnicache_exists)
              /\ Contains(cmds[k].words, "--reference") =>
                    cmds[k].words[Len(cmds[k].words)] = args.omnicache_path

\* an omnicache path that does not exist was given, and the run fetched a
\* submodule without --reference and returned 0
C9_Witness ==
    /\ args.omnicache_path # None /\ ~args.omnicache_exists
    /\ omnicache_path = None
    /\ pc = "done" /\ returned = 0
    /\ \E k \in Positions : IsFetch(cmds[k]) /\ ~Contains(cmds[k].words, "--reference")

(* C10 *)

ExcludesLogs(c) ==
    /\ Contains(c.words, "Build/SETUPLOG.txt")
    /\ Contains(c.words, "Build/SETUPLOG.md")

\* the reset/clean commands issued so far, in order
RECURSIVE Destructive(_)
Destructive(s) ==
    IF s = <<>> THEN <<>>
    ELSE IF IsReset(Head(s)) \/ IsClean(Head(s))
         THEN << Head(s) >> \o Destructive(Tail(s))
         ELSE Destructive(Tail(s))

\* C10: without force no reset or clean is ever issued; in a run under force
\* in which no command failed, the resets and cleans are exactly: reset, clean
\* on the workspace root, then reset, clean on each submodule's resolved path
\* in list order, all before the sync; the root's clean, and no other,
\* excludes the two log files.
C10_DestructiveOnlyUnderForce ==
    /\ ~force_it => \A k \in Positions : ~IsReset(cmds[k]) /\ ~IsClean(cmds[k])
    /\ (force_it /\ pc = "done" /\ NoCommandFailed) =>
          LET d == Destructive(cmds)
              n == Len(required_submodules)
          IN  /\ Len(d) = 2 + 2 * n
              /\ \A k \in 1..Len(d) : cmds[k + 1] = d[k]
              /\ IsReset(d[1]) /\ d[1].workingdir = workspace_path
              /\ IsClean(d[2]) /\ d[2].workingdir = workspace_path
              /\ ExcludesLogs(d[2])
              /\ \A i \in 1..n :
                    /\ IsReset(d[2 * i + 1]) /\ IsClean(d[2 * i + 2])
                    /\ d[2 * i + 1].workingdir = ResolvedPath(required_submodules[i])
                    /\ d[2 * i + 2].workingdir = ResolvedPath(required_submodules[i])
                    /\ ~Contains(d[2 * i + 2].words, "-e")
                    /\ ~ExcludesLogs(d[2 * i + 2])
              /\ n > 0 => IsSync(cmds[2 * n + 4])

\* force on, two submodules, nothing failed: six resets and cleans, then the sync
C10_Witness ==
    /\ force_it /\ pc = "done" /\ NoCommandFailed
    /\ Len(required_submodules) = 2
    /\ Len(Destructive(cmds)) = 6
    /\ IsSync(cmds[8])
    /\ cmds[5].workingdir = << "ws", "Tiano" >>

====
